---- MODULE Spec2Model ----
(***************************************************************************)
(* Task-execution engine of magentic-console: the retry/backoff controller *)
(* (MagenticOrchestrator.executeClaudeWithRetry), the tool-call resolution *)
(* loops (executeClaudeWithToolHandling, executeOllamaWithToolHandling),   *)
(* tool-result truncation (truncateToolResult), the planner's fallback     *)
(* (ManagerAgent.createPlan), MagenticOrchestrator.executePlan, the step   *)
(* executor of POST /api/execute and the abort request handler.            *)
(*                                                                         *)
(* The program is single-threaded JavaScript: code between two awaits runs *)
(* without interleaving.  Every action below is one such run-to-completion *)
(* segment; handlers of other requests and the environment (timers, the    *)
(* backends, the tool server, the file system) act only when every layer   *)
(* is parked at an await (AtAwait).                                        *)
(***************************************************************************)
EXTENDS Integers, Sequences, FiniteSets, TLC

(***************************************************************************)
(* Bounds of the model                                                     *)
(***************************************************************************)
MaxSteps == 2            \* longest plan the planner returns
MaxToolRounds == 1       \* tool rounds a backend asks for in a plan step
MaxAborts == 1           \* abort requests received
MaxNesting == 1          \* cross-agent calls nested in one another
MaxDepth == 21           \* nesting followed when every answer is invoke_claude

(***************************************************************************)
(* Program constants                                                       *)
(***************************************************************************)
MAX_TOOL_ITERATIONS == 20
DefaultMaxRetries == 3
DefaultRetryAfter == 60

(***************************************************************************)
(* JavaScript values.  Numbers in the model are naturals; NaN and          *)
(* undefined are encoded as negative integers.                             *)
(***************************************************************************)
NaN == -1
Undefined == -2

Truthy(v) == v # 0 /\ v # NaN /\ v # Undefined

Digits == {"0", "1", "2", "3", "4", "5", "6", "7", "8", "9"}

DigitOf == [c \in Digits |->
              CASE c = "0" -> 0 [] c = "1" -> 1 [] c = "2" -> 2 [] c = "3" -> 3
                [] c = "4" -> 4 [] c = "5" -> 5 [] c = "6" -> 6 [] c = "7" -> 7
                [] c = "8" -> 8 [] c = "9" -> 9]

RECURSIVE DigitsValue(_)
DigitsValue(s) ==
    IF s = <<>> THEN 0
    ELSE DigitsValue(SubSeq(s, 1, Len(s) - 1)) * 10 + DigitOf[s[Len(s)]]

\* Number of leading decimal digits of the character sequence s.
LeadingDigits(s) ==
    IF \E i \in 1..Len(s) : s[i] \notin Digits
    THEN (CHOOSE i \in 1..Len(s) :
              s[i] \notin Digits /\ \A j \in 1..(i - 1) : s[j] \in Digits) - 1
    ELSE Len(s)

\* parseInt(s, 10) for a string without sign or leading blanks.
ParseInt(s) ==
    IF LeadingDigits(s) = 0 THEN NaN
    ELSE DigitsValue(SubSeq(s, 1, LeadingDigits(s)))

(***************************************************************************)
(* Errors.  message is the Error's message; n is a number the message      *)
(* embeds (0 when it embeds none).                                         *)
(***************************************************************************)
Msg(text, n) == [text |-> text, n |-> n]

AbortError ==
    [isRateLimit |-> FALSE, retryAfter |-> Undefined,
     message |-> Msg("Execution aborted by user", 0)]

MaxIterationsError ==
    [isRateLimit |-> FALSE, retryAfter |-> Undefined,
     message |-> Msg("Maximum tool call iterations exceeded", MAX_TOOL_ITERATIONS)]

NoError ==
    [isRateLimit |-> FALSE, retryAfter |-> Undefined, message |-> Msg("", 0)]

\* An error as the Anthropic SDK raises it: HTTP status, error.error.type,
\* the retry-after header and the digits of "try again in N seconds" in
\* error.error.message (present = FALSE when the header, or a message with
\* that phrase, is missing).
Opt(present, text) == [present |-> present, text |-> text]

ApiError(status, type, header, msgWait) ==
    [status |-> status, type |-> type, header |-> header, msgWait |-> msgWait]

\* The rate-limit branch of the catch in ClaudeAgent.execute.
RetryAfterSeconds(raw) ==
    IF raw.header.present /\ raw.header.text # <<>>
    THEN ParseInt(raw.header.text)
    ELSE IF raw.msgWait.present
         THEN ParseInt(raw.msgWait.text)
         ELSE DefaultRetryAfter

IsRateLimitSignal(raw) == raw.status = 429 \/ raw.type = "rate_limit_error"

\* What ClaudeAgent.execute throws for the SDK error raw.
ClaudeExecuteCatch(raw) ==
    IF IsRateLimitSignal(raw)
    THEN [isRateLimit |-> TRUE, retryAfter |-> RetryAfterSeconds(raw),
          message |-> Msg("Rate limit przekroczony", RetryAfterSeconds(raw))]
    ELSE [isRateLimit |-> FALSE, retryAfter |-> Undefined,
          message |-> Msg("api error", raw.status)]


(***************************************************************************)
(* State                                                                   *)
(***************************************************************************)
VARIABLES
    env,                  \* what the backends and the tool server can do
    aborted,              \* MagenticOrchestrator.aborted
    aborts,               \* abort requests received so far
    abortAt,              \* steps begun when a run's first abort request came
    model,                \* this.model of the Claude and Ollama adapters
    \* -- one call of executeClaudeWithRetry
    rcPc,                 \* "idle" | "attempt" | "calling" | "sleeping" | "done"
    attempt,              \* loop variable attempt
    maxRetries,           \* parameter maxRetries
    lastError,            \* local lastError
    rcLog,                \* what this call did, in order: invoke / notify / sleep
    sleepLeft,            \* seconds until the backoff timer fires
    slept,                \* seconds this call has spent in backoff sleeps
    lateness,             \* of those, seconds slept with the abort flag set
    \* -- the request in flight and the value handed back to its awaiter
    net,                  \* "none" | "claude" | "ollama" | "manager" | "mcp"
    resp,                 \* [st, response, error]
    \* -- one call of executeWithClaude / executeWithOllama / executeWithManager
    lpPc,                 \* "idle" | "enter" | "head" | "await" | "dispatch" | "done"
    lpAgent,              \* backend the call drives
    task,                 \* parameter task: the instruction
    stack,                \* the calls awaiting a nested call, outermost first
    toolCallIterations,   \* local toolCallIterations
    messages,             \* local messages
    curResponse,          \* local response of the current round
    pending,              \* tool calls of the round not yet dispatched
    toolResults,          \* local toolResults of the round
    allToolCallsHistory,  \* local allToolCallsHistory (Ollama)
    currentStepToolCalls, \* MagenticOrchestrator.currentStepToolCalls
    loopCalls,            \* backend requests this call has issued
    ret,                  \* [st, value, error]: what the call returned or threw
    \* -- POST /api/execute and POST /api/execute/abort
    pc,                   \* position of the /api/execute handler
    plan,                 \* const plan
    stepIdx,              \* position of the for loop over plan.steps
    results,              \* const results
    session,              \* currentExecutionSession
    saved,                \* the session document on disk
    outcome,              \* response of /api/execute
    reply,                \* the step results that response carries
    planText,             \* createPlan's local response: the planner's text
    abortPc               \* position of the abort handler

envVars == <<env, model, aborted, aborts, abortAt>>
rcVars == <<rcPc, attempt, maxRetries, lastError, rcLog, sleepLeft, slept, lateness>>
netVars == <<net, resp>>
lpVars == <<lpPc, lpAgent, task, stack, toolCallIterations, messages, curResponse, pending,
            toolResults, allToolCallsHistory, currentStepToolCalls, loopCalls, ret>>
runVars == <<pc, plan, stepIdx, results, session, saved, outcome, reply, planText,
            abortPc>>
vars == <<envVars, rcVars, netVars, lpVars, runVars>>

(***************************************************************************)
(* Backend responses and awaited values                                    *)
(***************************************************************************)
NoResponse == [content |-> "", toolCalls |-> <<>>]

FinalTexts == {"A", "B"}

\* The tool calls of a response of round r that asks for the tools in names.
ToolCallsOf(names, r) ==
    [i \in 1..Len(names) |-> [id |-> <<r, i>>, name |-> names[i], input |-> "q"]]

InvokeGemini == <<"invoke", "gemini">>
InvokeClaude == <<"invoke", "claude">>

AsksNested(names) ==
    \E i \in 1..Len(names) : names[i] \in {InvokeGemini, InvokeClaude}

\* Responses a backend may give to the request issued after iters tool rounds.
Responses(iters) ==
    {[content |-> t, toolCalls |-> <<>>] : t \in env.texts}
    \cup (IF iters < env.roundCap
          THEN {[content |-> "use", toolCalls |-> ToolCallsOf(names, iters + 1)] :
                   names \in {l \in env.lists :
                                 AsksNested(l) => Len(stack) < env.nesting}}
          ELSE {})

NoResp == [st |-> "none", response |-> NoResponse, error |-> NoError]
Returned(response) == [st |-> "ok", response |-> response, error |-> NoError]
Thrown(error) == [st |-> "err", response |-> NoResponse, error |-> error]

(***************************************************************************)
(* Retry/backoff controller: MagenticOrchestrator.executeClaudeWithRetry   *)
(***************************************************************************)
LogInvoke(a) == [ev |-> "invoke", w |-> 0, attempt |-> a, max |-> 0]
LogNotify(w, a, m) == [ev |-> "notify", w |-> w, attempt |-> a, max |-> m]
LogSleep(w, a) == [ev |-> "sleep", w |-> w, attempt |-> a, max |-> 0]

\* for (let attempt = 1; attempt <= maxRetries; attempt++)
WithinBudget_OneMore(a, m) == a <= m + 1
WithinBudget(a, m) == a <= m

\* rateLimitCallback(retryAfter, attempt, maxRetries)
Notification_ZeroBased(error, a, m) == LogNotify(error.retryAfter, a - 1, m)
Notification(error, a, m) == LogNotify(error.retryAfter, a, m)

\* if (error.isRateLimit && error.retryAfter)
IsRetryable_AnyError(error) == TRUE
IsRetryable(error) == error.isRateLimit /\ Truthy(error.retryAfter)

\* What the controller does once the backoff timer has fired.
AfterSleep(flag) == IF flag THEN "throw" ELSE "continue"

\* The call itself: let lastError = null; attempt = 1.
RetryEnter(m) ==
    /\ rcPc' = "attempt"
    /\ attempt' = 1
    /\ maxRetries' = m
    /\ lastError' = NoError
    /\ rcLog' = <<>>
    /\ sleepLeft' = 0
    /\ slept' = 0
    /\ lateness' = 0

\* The call has returned to its awaiter: its locals are gone.
RetryLocalsGone ==
    /\ rcPc' = "idle"
    /\ attempt' = 0
    /\ maxRetries' = DefaultMaxRetries
    /\ lastError' = NoError
    /\ rcLog' = <<>>
    /\ sleepLeft' = 0
    /\ slept' = 0
    /\ lateness' = 0

\* Top of the for loop: issue the request, or give up with lastError.
RetryAttempt ==
    /\ rcPc = "attempt"
    /\ IF WithinBudget(attempt, maxRetries)
       THEN /\ rcPc' = "calling"
            /\ net' = "claude"
            /\ rcLog' = Append(rcLog, LogInvoke(attempt))
            /\ UNCHANGED resp
       ELSE /\ rcPc' = "done"
            /\ resp' = Thrown(lastError)
            /\ UNCHANGED <<net, rcLog>>
    /\ UNCHANGED <<attempt, maxRetries, lastError, sleepLeft, slept, lateness>>
    /\ UNCHANGED <<envVars, lpVars, runVars>>

\* claude.execute resolves.
ClaudeReturns ==
    /\ rcPc = "calling" /\ net = "claude"
    /\ \E response \in Responses(toolCallIterations) :
          resp' = Returned(response)
    /\ rcPc' = "done"
    /\ net' = "none"
    /\ UNCHANGED <<attempt, maxRetries, lastError, rcLog, sleepLeft, slept, lateness>>
    /\ UNCHANGED <<envVars, lpVars, runVars>>

\* claude.execute rejects: the catch block of the controller.
ClaudeThrows ==
    /\ rcPc = "calling" /\ net = "claude"
    /\ \E raw \in env.faults :
          LET error == ClaudeExecuteCatch(raw) IN
          /\ lastError' = error
          /\ IF IsRetryable(error)
             THEN /\ rcLog' = rcLog \o <<Notification(error, attempt, maxRetries),
                                         LogSleep(error.retryAfter, attempt)>>
                  /\ sleepLeft' = error.retryAfter
                  /\ rcPc' = "sleeping"
                  /\ UNCHANGED resp
             ELSE /\ resp' = Thrown(error)
                  /\ rcPc' = "done"
                  /\ UNCHANGED <<rcLog, sleepLeft>>
    /\ net' = "none"
    /\ UNCHANGED <<attempt, maxRetries, slept, lateness>>
    /\ UNCHANGED <<envVars, lpVars, runVars>>

\* One second of a backoff sleep passes.
TimerTick ==
    /\ rcPc = "sleeping" /\ sleepLeft > 0
    /\ sleepLeft' = sleepLeft - 1
    /\ slept' = slept + 1
    /\ lateness' = IF aborted THEN lateness + 1 ELSE lateness
    /\ UNCHANGED <<rcPc, attempt, maxRetries, lastError, rcLog>>
    /\ UNCHANGED <<envVars, netVars, lpVars, runVars>>

\* The timer fires: check for abort during wait, then try again.
SleepDone ==
    /\ rcPc = "sleeping" /\ sleepLeft = 0
    /\ IF AfterSleep(aborted) = "throw"
       THEN /\ resp' = Thrown(AbortError)
            /\ rcPc' = "done"
            /\ UNCHANGED attempt
       ELSE /\ attempt' = attempt + 1
            /\ rcPc' = "attempt"
            /\ UNCHANGED resp
    /\ UNCHANGED <<maxRetries, lastError, rcLog, sleepLeft, slept, lateness, net>>
    /\ UNCHANGED <<envVars, lpVars, runVars>>


(***************************************************************************)
(* Sessions and the abort request handler                                  *)
(***************************************************************************)
NoPlan == <<>>

\* currentExecutionSession = null is the session with id 0.
NoSession ==
    [id |-> 0, messages |-> <<>>, stepExecutions |-> <<>>, plan |-> NoPlan,
     updatedAt |-> 0]

\* new Date(): a reading of the clock, counted in readings; the first is
\* the one that creates the session.
Created == 1
Later(t) == t + 1

\* session.updatedAt = new Date().toISOString()
Stamped_Earlier(sess) == [sess EXCEPT !.updatedAt = @ - 1]
Stamped(sess) == [sess EXCEPT !.updatedAt = Later(@)]

\* A result text: the backend's final text and, for Ollama, the tool-call
\* history that executeOllamaWithToolHandling formats in front of it.
Text(t, hist) == [text |-> t, hist |-> hist]
NoText == Text("", <<>>)

\* An entry of session.messages.
SessionMsg(role, kind, step, body) ==
    [role |-> role, kind |-> kind, step |-> step, body |-> body]

AbortMarker == SessionMsg("assistant", "aborted", 0, NoText)

NoRet == [st |-> "none", value |-> NoText, error |-> NoError]

\* What a finished call hands to its caller besides the outcome: the step
\* results joined into the result text (or listed in the results field).
Reply(rs) == [sent |-> TRUE, results |-> rs]
NoReply == [sent |-> FALSE, results |-> <<>>]

\* abortAt when no abort request has reached the run.
NoAbort == 0 - 1

\* saveExecution(doc): the file executions/<id>.json after the write.
Written(disk, doc) == doc

AwaitPcs == {"await_plan", "save_completed", "save_failed", "save_aborted",
             "save_final", "save_outer"}

\* The top-level call has finished, or has not been made.
Finished ==
    /\ pc \in {"idle", "done"}
    /\ lpPc \in {"idle", "done"} /\ stack = <<>>
    /\ rcPc \in {"idle", "done"}

\* The event loop is free: the running handler is parked at an await.
AtAwait ==
    \/ net # "none"
    \/ rcPc = "sleeping"
    \/ pc \in AwaitPcs
    \/ Finished

\* POST /api/execute/abort, up to its await of saveExecution.
AbortRequest ==
    /\ AtAwait
    /\ abortPc = "idle"
    /\ aborts < MaxAborts
    /\ aborts' = aborts + 1
    /\ aborted' = TRUE
    /\ abortAt' = IF pc \notin {"idle", "done"} /\ abortAt = NoAbort
                  THEN Len(session.stepExecutions)
                  ELSE abortAt
    /\ IF session.id # 0
       THEN /\ session' = Stamped([session EXCEPT !.messages = Append(@, AbortMarker)])
            /\ abortPc' = "saving"
       ELSE UNCHANGED <<session, abortPc>>
    /\ UNCHANGED <<env, model, pc, plan, stepIdx, results, saved, outcome, reply, planText>>
    /\ UNCHANGED <<rcVars, netVars, lpVars>>

\* saveExecution of the abort handler completes; the handler responds.
AbortSaved ==
    /\ abortPc = "saving"
    /\ saved' = Written(saved, session)
    /\ abortPc' = "idle"
    /\ UNCHANGED <<pc, plan, stepIdx, results, session, outcome, reply, planText>>
    /\ UNCHANGED <<envVars, rcVars, netVars, lpVars>>

(***************************************************************************)
(* Tool dispatch.  A tool name is the sequence of its parts between        *)
(* underscores: mcp_neo4j_read is <<"mcp", "neo4j", "read">>.              *)
(***************************************************************************)
\* toolCall.name.startsWith('mcp_')
IsMcpName(name) == Len(name) >= 2 /\ name[1] = "mcp"

\* toolName.match(/^mcp_([^_]+)_(.+)$/)
McpNameMatches(name) == Len(name) >= 3 /\ name[1] = "mcp"

IsCrossAgentName(name) == name = InvokeGemini \/ name = InvokeClaude

\* A tool output: kind "data" or "error", and the length of its string form.
Output(kind, text, len) == [kind |-> kind, text |-> text, len |-> len]

UnknownToolOutput == Output("error", "Unknown tool", 30)

McpError(text) ==
    [isRateLimit |-> FALSE, retryAfter |-> Undefined, message |-> Msg(text, 0)]

\* What the dispatcher does with a call that is not a cross-agent call:
\* "call" the tool server, "throw" before any request, or answer "unknown".
DispatchKind(name) ==
    IF IsMcpName(name)
    THEN IF ~McpNameMatches(name) THEN "throw"
         ELSE IF name[2] \notin env.servers THEN "throw"
         ELSE "call"
    ELSE "unknown"

DispatchError(name) ==
    IF ~McpNameMatches(name)
    THEN McpError("Invalid MCP tool name format")
    ELSE McpError("MCP server not found")

\* A string is a sequence of runs; a run is the first n characters of the
\* text that src names (the JSON form of a tool output, or an elision
\* suffix).  Two strings are equal iff their runs are.
Run(tag, text, a, b, n) == [tag |-> tag, text |-> text, a |-> a, b |-> b, n |-> n]

RECURSIVE StrLength(_)
StrLength(s) == IF s = <<>> THEN 0 ELSE Head(s).n + StrLength(Tail(s))

\* s.substring(0, k)
RECURSIVE Substring(_, _)
Substring(s, k) ==
    IF s = <<>> \/ k <= 0 THEN <<>>
    ELSE IF Head(s).n <= k
         THEN <<Head(s)>> \o Substring(Tail(s), k - Head(s).n)
         ELSE <<[Head(s) EXCEPT !.n = k]>>

\* The number of characters of `${n}` for n >= 0.
RECURSIVE DecimalDigits(_)
DecimalDigits(n) == IF n < 10 THEN 1 ELSE 1 + DecimalDigits(n \div 10)

\* The characters of the suffix template outside its two numbers.
SuffixFixedLength == 129

\* `\n\n[... skrocono ${elided} znakow. Pelny wynik byl za dlugi (${total} znakow). ...]`
Suffix(elided, total) ==
    <<Run("suffix", "", elided, total,
          SuffixFixedLength + DecimalDigits(elided) + DecimalDigits(total))>>

\* A value that is a string (typeof result === 'string').
StringValue(s) == [kind |-> "string", chars |-> s]

\* JSON.stringify(result) of an object
JsonStringify(result) == <<Run("json", result.text, 0, 0, result.len)>>

\* The string of a text of letters.
TextLength == 1
Chars(text) == <<Run("text", text, 0, 0, TextLength)>>

Quote == Run("quote", "", 0, 0, 1)

\* JSON.stringify(result, null, 2): an object with line breaks and
\* indentation, n counting the characters outside that white space; a
\* string of letters between double quotes.
Stringify(result) ==
    IF result.kind = "string"
    THEN <<Quote>> \o result.chars \o <<Quote>>
    ELSE <<Run("json2", result.text, 0, 0, result.len)>>

ResultStr(result) ==
    IF result.kind = "string" THEN result.chars ELSE JsonStringify(result)

TRUNCATE_AT == 10000

truncateToolResult_NoSuffix(result, maxLength) ==
    Substring(ResultStr(result), maxLength)
truncateToolResult(result, maxLength) ==
    LET resultStr == ResultStr(result)
        length == StrLength(resultStr)
    IN  IF length <= maxLength
        THEN resultStr
        ELSE Substring(resultStr, maxLength) \o Suffix(length - maxLength, length)

\* A step description: the planner's text for step n, or the task itself;
\* schema tells whether the compact Neo4j schema has been appended.
Description(of, n, schema) == [of |-> of, n |-> n, schema |-> schema]

\* An instruction: a description, followed by the delimited context blocks
\* ('--- KONTEKST Z POPRZEDNICH KROKOW ---' ... '--- KONIEC KONTEKSTU ---'),
\* each a sequence of entries.
Instruction(description, blocks) == [description |-> description, blocks |-> blocks]
NoTask == Instruction(Description("none", 0, FALSE), <<>>)

\* An entry of messages.
TaskMessage(instruction) ==
    [role |-> "user", text |-> instruction, results |-> <<>>]
AssistantMessage(response) ==
    [role |-> "assistant", text |-> response.content, results |-> <<>>]
ResultMessage(agent, trs) ==
    [role |-> "user", text |-> "tool results",
     results |-> [k \in 1..Len(trs) |->
                    [id |-> trs[k].toolCallId,
                     content |-> IF agent = "claude"
                                 THEN truncateToolResult(trs[k].output, TRUNCATE_AT)
                                 ELSE Stringify(trs[k].output)]]]

TraceEntry(tc, output) ==
    [id |-> tc.id, name |-> tc.name, input |-> tc.input, result |-> output]
ToolResult(tc, output) == [toolCallId |-> tc.id, output |-> output]

\* currentIterationCalls of the Ollama loop once the for loop is through.
IterationCalls(toolCalls, trs) ==
    [k \in 1..Len(trs) |->
        [name |-> toolCalls[k].name, input |-> toolCalls[k].input,
         result |-> trs[k].output]]

RetReturned(value) == [st |-> "ok", value |-> value, error |-> NoError]
RetThrown(error) == [st |-> "err", value |-> NoText, error |-> error]

OllamaNotConfigured == McpError("Ollama agent is not configured")

\* The loop gives up when this holds at the top of an iteration.
IterationsExhausted_OffByOne(n) == n > MAX_TOOL_ITERATIONS
IterationsExhausted(n) == n >= MAX_TOOL_ITERATIONS

\* The backend request of an iteration: through the controller or direct.
UsesRetryController(agent) == agent = "claude"

(***************************************************************************)
(* executeWithClaude / executeWithOllama / executeWithManager and the      *)
(* resolution loops executeClaudeWithToolHandling and                      *)
(* executeOllamaWithToolHandling                                           *)
(***************************************************************************)
\* let toolCallIterations = 0: a local of each call of the loop, whatever
\* the count of the call that awaits it.
InitialIterations_Inherited(caller) == caller
InitialIterations(caller) == 0

\* The call: task is the instruction, agent the backend.
LoopLocals(agent, instruction) ==
    /\ lpPc' = "enter"
    /\ lpAgent' = agent
    /\ task' = instruction
    /\ toolCallIterations' = InitialIterations(toolCallIterations)
    /\ messages' = <<>>
    /\ curResponse' = NoResponse
    /\ pending' = <<>>
    /\ toolResults' = <<>>
    /\ allToolCallsHistory' = <<>>
    /\ loopCalls' = 0
    /\ ret' = NoRet

\* The call made by a handler: nothing awaits a nested call.
LoopCall(agent, instruction) == LoopLocals(agent, instruction) /\ UNCHANGED stack

\* The call has returned to its awaiter: its locals are gone.
LoopLocalsGone ==
    /\ lpPc' = "idle"
    /\ lpAgent' = "none"
    /\ task' = NoTask
    /\ UNCHANGED stack
    /\ toolCallIterations' = 0
    /\ messages' = <<>>
    /\ curResponse' = NoResponse
    /\ pending' = <<>>
    /\ toolResults' = <<>>
    /\ allToolCallsHistory' = <<>>
    /\ loopCalls' = 0

\* Entry checks of executeWithX, and for the manager and Gemini the first
\* request.
ExecuteWithEnter ==
    /\ lpPc = "enter"
    /\ IF lpAgent = "ollama" /\ ~env.ollama
       THEN /\ ret' = RetThrown(OllamaNotConfigured)
            /\ lpPc' = "done"
            /\ UNCHANGED <<messages, net, loopCalls>>
       ELSE IF aborted
       THEN /\ ret' = RetThrown(AbortError)
            /\ lpPc' = "done"
            /\ UNCHANGED <<messages, net, loopCalls>>
       ELSE IF lpAgent \in {"manager", "gemini"}
       THEN /\ messages' = <<TaskMessage(task)>>
            /\ net' = lpAgent
            /\ loopCalls' = loopCalls + 1
            /\ lpPc' = "await"
            /\ UNCHANGED ret
       ELSE /\ messages' = <<TaskMessage(task)>>
            /\ lpPc' = "head"
            /\ UNCHANGED <<ret, net, loopCalls>>
    /\ UNCHANGED <<lpAgent, task, stack, toolCallIterations, curResponse, pending, toolResults,
                   allToolCallsHistory, currentStepToolCalls, resp>>
    /\ UNCHANGED <<envVars, rcVars, runVars>>

\* Top of while (true): abort check, iteration bound, backend request.
LoopHead ==
    /\ lpPc = "head"
    /\ IF aborted
       THEN /\ ret' = RetThrown(AbortError)
            /\ lpPc' = "done"
            /\ UNCHANGED <<loopCalls, net, rcVars>>
       ELSE IF IterationsExhausted(toolCallIterations)
       THEN /\ ret' = RetThrown(MaxIterationsError)
            /\ lpPc' = "done"
            /\ UNCHANGED <<loopCalls, net, rcVars>>
       ELSE /\ loopCalls' = loopCalls + 1
            /\ lpPc' = "await"
            /\ UNCHANGED ret
            /\ IF UsesRetryController(lpAgent)
               THEN RetryEnter(DefaultMaxRetries) /\ UNCHANGED net
               ELSE net' = lpAgent /\ UNCHANGED rcVars
    /\ UNCHANGED <<lpAgent, task, stack, toolCallIterations, messages, curResponse, pending,
                   toolResults, allToolCallsHistory, currentStepToolCalls, resp>>
    /\ UNCHANGED <<envVars, runVars>>

\* The tool rounds behind the request in flight; executeWithGemini keeps no
\* counter, it has pushed one assistant turn per round.
RoundsSoFar ==
    IF lpAgent = "gemini" THEN Len(messages) - 1 ELSE toolCallIterations

\* ollama.execute / manager.execute / gemini.execute resolves.
DirectReturns ==
    /\ net \in {"ollama", "manager", "gemini"}
    /\ \E response \in Responses(RoundsSoFar) :
          resp' = Returned(response)
    /\ net' = "none"
    /\ UNCHANGED <<envVars, rcVars, lpVars, runVars>>

\* ollama.execute / manager.execute / gemini.execute rejects: a plain Error.
DirectThrows ==
    /\ net \in {"ollama", "manager", "gemini"}
    /\ \E status \in env.directFaults :
          resp' = Thrown([isRateLimit |-> FALSE, retryAfter |-> Undefined,
                          message |-> Msg("API error", status)])
    /\ net' = "none"
    /\ UNCHANGED <<envVars, rcVars, lpVars, runVars>>

\* The text a loop returns for a response without tool calls.
FinalValue(agent, response, history) ==
    IF agent = "ollama" /\ history # <<>>
    THEN Text(response.content, history)
    ELSE Text(response.content, <<>>)

\* The awaited backend request has settled.
LoopOnResult ==
    /\ lpPc = "await" /\ net = "none" /\ rcPc \in {"idle", "done"}
    /\ lpAgent # "gemini"
    /\ resp.st # "none"
    /\ resp' = NoResp
    /\ IF resp.st = "err"
       THEN /\ ret' = RetThrown(resp.error)
            /\ lpPc' = "done"
            /\ UNCHANGED <<toolCallIterations, curResponse, pending, toolResults>>
       ELSE IF lpAgent = "manager" \/ resp.response.toolCalls = <<>>
       THEN /\ ret' = RetReturned(FinalValue(lpAgent, resp.response,
                                              allToolCallsHistory))
            /\ lpPc' = "done"
            /\ curResponse' = resp.response
            /\ UNCHANGED <<toolCallIterations, pending, toolResults>>
       ELSE /\ toolCallIterations' = toolCallIterations + 1
            /\ curResponse' = resp.response
            /\ pending' = resp.response.toolCalls
            /\ toolResults' = <<>>
            /\ lpPc' = "dispatch"
            /\ UNCHANGED ret
    /\ UNCHANGED <<lpAgent, task, stack, messages, allToolCallsHistory, currentStepToolCalls,
                   loopCalls, net>>
    /\ RetryLocalsGone
    /\ UNCHANGED <<envVars, runVars>>

\* Record a dispatched call: currentStepToolCalls.push, toolResults.push.
Recorded_Unshift(tc, output) ==
    /\ currentStepToolCalls' = <<TraceEntry(tc, output)>> \o currentStepToolCalls
    /\ toolResults' = <<ToolResult(tc, output)>> \o toolResults
    /\ pending' = Tail(pending)
Recorded(tc, output) ==
    /\ currentStepToolCalls' = Append(currentStepToolCalls, TraceEntry(tc, output))
    /\ toolResults' = Append(toolResults, ToolResult(tc, output))
    /\ pending' = Tail(pending)

\* Body of for (const toolCall of response.toolCalls), up to its await.
DispatchTool ==
    /\ lpPc = "dispatch" /\ pending # <<>> /\ net = "none"
    /\ ~IsCrossAgentName(Head(pending).name)
    /\ LET tc == Head(pending) IN
       CASE DispatchKind(tc.name) = "unknown" ->
              /\ Recorded(tc, UnknownToolOutput)
              /\ UNCHANGED <<lpPc, net, ret>>
         [] DispatchKind(tc.name) = "call" ->
              /\ net' = "mcp"
              /\ UNCHANGED <<lpPc, ret, currentStepToolCalls, toolResults, pending>>
         [] DispatchKind(tc.name) = "throw" ->
              /\ ret' = RetThrown(DispatchError(tc.name))
              /\ lpPc' = "done"
              /\ UNCHANGED <<net, currentStepToolCalls, toolResults, pending>>
    /\ UNCHANGED <<lpAgent, task, stack, toolCallIterations, messages, curResponse,
                   allToolCallsHistory, loopCalls, resp>>
    /\ UNCHANGED <<envVars, rcVars, runVars>>

\* The locals of the call that awaits a nested call.
Frame ==
    [lpAgent |-> lpAgent, task |-> task, toolCallIterations |-> toolCallIterations,
     messages |-> messages, curResponse |-> curResponse, pending |-> pending,
     toolResults |-> toolResults, allToolCallsHistory |-> allToolCallsHistory,
     loopCalls |-> loopCalls]

Restored(frame) ==
    /\ lpAgent' = frame.lpAgent
    /\ task' = frame.task
    /\ toolCallIterations' = frame.toolCallIterations
    /\ messages' = frame.messages
    /\ curResponse' = frame.curResponse
    /\ allToolCallsHistory' = frame.allToolCallsHistory
    /\ loopCalls' = frame.loopCalls

\* The backend a cross-agent tool name stands for.
TargetOf(name) == IF name = InvokeGemini THEN "gemini" ELSE "claude"

\* toolCall.input.task, with the context if one is given.
NestedTask(tc) == Instruction(Description("input", 0, FALSE), <<>>)

\* What the awaited executeWithX hands to the dispatcher: a string.
NestedOutput_Blank(value) == StringValue(Chars(""))
NestedOutput(value) == StringValue(Chars(value.text))

\* Body of the for loop for invoke_gemini / invoke_claude, up to the first
\* statement of the nested executeWithX.
CrossAgentCall ==
    /\ lpPc = "dispatch" /\ pending # <<>> /\ net = "none"
    /\ IsCrossAgentName(Head(pending).name)
    /\ stack' = Append(stack, Frame)
    /\ LoopLocals(TargetOf(Head(pending).name), NestedTask(Head(pending)))
    /\ UNCHANGED <<currentStepToolCalls, resp, net>>
    /\ UNCHANGED <<envVars, rcVars, runVars>>

\* The nested executeWithX returned: its text is the toolResult, recorded
\* like any other, and the for loop goes on.
NestedReturns ==
    /\ stack # <<>> /\ lpPc = "done" /\ ret.st = "ok"
    /\ LET frame == stack[Len(stack)]
           tc == Head(frame.pending)
           output == NestedOutput(ret.value)
       IN  /\ Restored(frame)
           /\ currentStepToolCalls' =
                  Append(currentStepToolCalls, TraceEntry(tc, output))
           /\ toolResults' = Append(frame.toolResults, ToolResult(tc, output))
           /\ pending' = Tail(frame.pending)
    /\ stack' = SubSeq(stack, 1, Len(stack) - 1)
    /\ lpPc' = "dispatch"
    /\ ret' = NoRet
    /\ UNCHANGED <<resp, net>>
    /\ UNCHANGED <<envVars, rcVars, runVars>>

\* The nested executeWithX threw: nothing catches it in the for loop, the
\* awaiting call throws the same error.
NestedThrows ==
    /\ stack # <<>> /\ lpPc = "done" /\ ret.st = "err"
    /\ LET frame == stack[Len(stack)]
       IN  /\ Restored(frame)
           /\ toolResults' = frame.toolResults
           /\ pending' = frame.pending
    /\ stack' = SubSeq(stack, 1, Len(stack) - 1)
    /\ UNCHANGED <<lpPc, ret, currentStepToolCalls, resp, net>>
    /\ UNCHANGED <<envVars, rcVars, runVars>>

WebSearch == <<"web", "search">>
Summarize == <<"summarize">>

\* The tools executeWithGemini answers itself.
GeminiToolOutput(name) ==
    IF name = WebSearch THEN Output("data", "search", 300)
    ELSE IF name = Summarize THEN Output("data", "summary", 40)
    ELSE UnknownToolOutput

\* gemini.execute / gemini.executeWithTools has settled: return the text,
\* or answer the tool calls, push the assistant turn and ask again.
GeminiOnResult ==
    /\ lpPc = "await" /\ net = "none" /\ lpAgent = "gemini"
    /\ resp.st # "none"
    /\ resp' = NoResp
    /\ IF resp.st = "err"
       THEN /\ ret' = RetThrown(resp.error)
            /\ lpPc' = "done"
            /\ UNCHANGED <<messages, curResponse, toolResults, loopCalls, net>>
       ELSE IF resp.response.toolCalls = <<>>
       THEN /\ ret' = RetReturned(Text(resp.response.content, <<>>))
            /\ lpPc' = "done"
            /\ curResponse' = resp.response
            /\ UNCHANGED <<messages, toolResults, loopCalls, net>>
       ELSE /\ curResponse' = resp.response
            /\ toolResults' =
                  [k \in 1..Len(resp.response.toolCalls) |->
                     ToolResult(resp.response.toolCalls[k],
                                GeminiToolOutput(resp.response.toolCalls[k].name))]
            /\ messages' = Append(messages, AssistantMessage(resp.response))
            /\ net' = "gemini"
            /\ loopCalls' = loopCalls + 1
            /\ UNCHANGED <<lpPc, ret>>
    /\ UNCHANGED <<lpAgent, task, stack, toolCallIterations, pending,
                   allToolCallsHistory, currentStepToolCalls>>
    /\ UNCHANGED <<envVars, rcVars, runVars>>

\* client.callTool resolves.
McpReturns ==
    /\ net = "mcp" /\ lpPc = "dispatch"
    /\ \E output \in env.mcp : Recorded(Head(pending), output)
    /\ net' = "none"
    /\ UNCHANGED <<lpPc, lpAgent, task, stack, toolCallIterations, messages, curResponse,
                   allToolCallsHistory, loopCalls, ret, resp>>
    /\ UNCHANGED <<envVars, rcVars, runVars>>

\* client.callTool rejects: executeMCPTool rethrows, nothing catches it.
McpThrows ==
    /\ net = "mcp" /\ lpPc = "dispatch"
    /\ env.mcpFails
    /\ ret' = RetThrown(McpError("MCP tool call failed"))
    /\ lpPc' = "done"
    /\ net' = "none"
    /\ UNCHANGED <<lpAgent, task, stack, toolCallIterations, messages, curResponse, pending,
                   toolResults, allToolCallsHistory, currentStepToolCalls,
                   loopCalls, resp>>
    /\ UNCHANGED <<envVars, rcVars, runVars>>

\* After the for loop: push the assistant turn and the tool-result turn.
RoundEnd ==
    /\ lpPc = "dispatch" /\ pending = <<>> /\ net = "none"
    /\ messages' = messages \o <<AssistantMessage(curResponse),
                                 ResultMessage(lpAgent, toolResults)>>
    /\ allToolCallsHistory' =
          IF lpAgent = "ollama"
          THEN Append(allToolCallsHistory,
                      [iteration |-> toolCallIterations,
                       calls |-> IterationCalls(curResponse.toolCalls, toolResults)])
          ELSE allToolCallsHistory
    /\ lpPc' = "head"
    /\ UNCHANGED <<lpAgent, task, stack, toolCallIterations, curResponse, pending, toolResults,
                   currentStepToolCalls, loopCalls, ret, resp, net>>
    /\ UNCHANGED <<envVars, rcVars, runVars>>

\* MagenticOrchestrator.chat(message, agent), up to the first await.
Chat ==
    /\ Finished /\ pc = "idle" /\ lpPc = "idle" /\ abortPc = "idle"
    /\ \E agent \in {"claude", "ollama", "manager"} :
          LoopCall(agent, Instruction(Description("task", 0, FALSE), <<>>))
    /\ UNCHANGED <<currentStepToolCalls, resp, net>>
    /\ UNCHANGED <<envVars, rcVars, runVars>>

(***************************************************************************)
(* POST /api/execute: plan, then the steps one by one                      *)
(***************************************************************************)
Agents == {"claude", "ollama", "manager", "mlx"}

\* step.model when the planner names none, and the model it names.
NoModel == "none"
StepModel == "chosen"

\* this.model of each adapter after construction: config.model.
ConfiguredModels == [claude |-> "configured", ollama |-> "configured"]

\* setModel(model): this.model = model
setModel(models, agent, m) == [models EXCEPT ![agent] = m]

\* The files uploaded with the request (taskFiles), by name.
TaskFiles == <<"F">>

\* A step as the planner writes it. The planner names a model and a
\* required file for the first step and none for the later ones.
PlanStep(k, agent) ==
    [step |-> k, agent |-> agent, description |-> Description("step", k, FALSE),
     model |-> IF k = 1 THEN StepModel ELSE NoModel,
     requiredFiles |-> IF k = 1 THEN TaskFiles ELSE <<>>]

\* Plans the planner may write: steps numbered by position, for the
\* backends this deployment's planner chooses from.
Plans ==
    UNION {{[k \in 1..n |-> PlanStep(k, f[k])] : f \in [1..n -> env.agents]} :
              n \in 1..MaxSteps}

\* The planner's text, by what createPlan can make of it: whether the
\* pattern /\{[\s\S]*\}/ matches, whether the match parses as JSON, and
\* whether the parsed object has a steps array.
PlannerText(braces, parses, hasSteps, steps) ==
    [given |-> TRUE, braces |-> braces, parses |-> parses, hasSteps |-> hasSteps,
     steps |-> steps]

NoPlannerText ==
    [given |-> FALSE, braces |-> FALSE, parses |-> FALSE, hasSteps |-> FALSE,
     steps |-> <<>>]

Prose == PlannerText(FALSE, FALSE, FALSE, <<>>)
BrokenJson == PlannerText(TRUE, FALSE, FALSE, <<>>)
ObjectWithoutSteps == PlannerText(TRUE, TRUE, FALSE, <<>>)

PlannerTexts ==
    {Prose, BrokenJson, ObjectWithoutSteps}
    \cup {PlannerText(TRUE, TRUE, TRUE, p) : p \in Plans}

\* What createPlan returns: the steps, or an object whose steps is undefined.
PlanValue(defined, steps) == [defined |-> defined, steps |-> steps]

FallbackPlan ==
    PlanValue(TRUE, <<[step |-> 1, agent |-> "claude",
                       description |-> Description("task", 0, FALSE),
                       model |-> NoModel, requiredFiles |-> <<>>]>>)

\* step.description += schema, for the steps of agent 'ollama'
WithSchema(steps) ==
    [k \in DOMAIN steps |->
        IF steps[k].agent = "ollama"
        THEN [steps[k] EXCEPT !.description.schema = TRUE]
        ELSE steps[k]]

\* The try/catch of ManagerAgent.createPlan on the planner's text.
createPlan(text, compactSchema) ==
    IF ~text.braces THEN FallbackPlan
    ELSE IF ~text.parses THEN FallbackPlan
    ELSE IF compactSchema
    THEN IF ~text.hasSteps THEN FallbackPlan
         ELSE PlanValue(TRUE, WithSchema(text.steps))
    ELSE PlanValue(text.hasSteps, text.steps)

\* taskFiles.filter(f => step.requiredFiles.some(rf => f.originalName === rf))
Matching(required, taskFiles) ==
    SelectSeq(taskFiles, LAMBDA f : \E i \in DOMAIN required : required[i] = f)

\* let stepQuery: the description, and the names of the matching files.
stepQuery(step, taskFiles) ==
    [description |-> step.description, blocks |-> <<>>,
     files |-> Matching(step.requiredFiles, taskFiles)]

\* let stepFiles: the matching files, cleared unless the agent is 'claude'.
stepFiles(step, taskFiles) ==
    IF step.agent = "claude" THEN Matching(step.requiredFiles, taskFiles) ELSE <<>>

StepExecution(step) ==
    [stepNumber |-> step.step, agent |-> step.agent, model |-> step.model,
     query |-> stepQuery(step, TaskFiles), status |-> "executing",
     response |-> NoText, error |-> Msg("", 0), toolCalls |-> <<>>]

IsAbortMessage_Never(message) == FALSE
IsAbortMessage(message) == message.text = "Execution aborted by user"

\* stepExecution.status in the catch block of a step.
FailedStatus_AlwaysAborted(error) == "aborted"
FailedStatus(error) == IF IsAbortMessage(error.message) THEN "aborted" ELSE "error"

\* One entry of the context block:
\* 'Krok ${prevStep.step} (${prevStep.agent}): ${prevStep.description}',
\* then 'Wynik: ${results[i]}'.
ContextEntry(prevStep, result) ==
    [step |-> prevStep.step, agent |-> prevStep.agent,
     description |-> prevStep.description, result |-> result]

\* The block: one entry for each of the results so far, in their order.
ContextBlock_FromSecond(steps, rs) ==
    [i \in 1..(Len(rs) - 1) |-> ContextEntry(steps[i + 1], rs[i + 1])]
ContextBlock(steps, rs) ==
    [i \in 1..Len(rs) |-> ContextEntry(steps[i], rs[i])]

\* let stepTask: the description, and the block once there are results.
stepTask(step, steps, rs) ==
    Instruction(step.description,
                IF Len(rs) > 0 THEN <<ContextBlock(steps, rs)>> ELSE <<>>)

\* The for loop goes on to the next step only from here.
NextStepIndex_Stay(k) == k
NextStepIndex(k) == k + 1

LastStep(sess) == Len(sess.stepExecutions)

WithLastStep_AllSteps(sess, status, response, error, toolCalls) ==
    [sess EXCEPT !.stepExecutions =
        [k \in DOMAIN @ |->
            [@[k] EXCEPT !.status = status, !.response = response,
                         !.error = error, !.toolCalls = toolCalls]]]
WithLastStep(sess, status, response, error, toolCalls) ==
    [sess EXCEPT !.stepExecutions[LastStep(sess)] =
        [@ EXCEPT !.status = status, !.response = response, !.error = error,
                  !.toolCalls = toolCalls]]

WithMessage(sess, m) == [sess EXCEPT !.messages = Append(@, m)]

\* generateExecutionId(): the ids of the first and of the second request.
FirstId == 1
SecondId == 2

\* The handler up to await createPlan.
ExecuteRequest ==
    /\ pc = "idle" /\ Finished
    /\ aborted' = FALSE
    /\ session' = [id |-> FirstId,
                   messages |-> <<SessionMsg("user", "task", 0, NoText)>>,
                   stepExecutions |-> <<>>, plan |-> NoPlan,
                   updatedAt |-> Created]
    /\ plan' = NoPlan /\ stepIdx' = 0 /\ results' = <<>> /\ outcome' = "none"
    /\ reply' = NoReply
    /\ planText' = NoPlannerText
    /\ pc' = "await_plan"
    /\ UNCHANGED <<env, model, aborts, abortAt, saved, abortPc>>
    /\ UNCHANGED <<rcVars, netVars, lpVars>>

\* this.execute of createPlan resolves with the planner's text: createPlan
\* returns, then the abort check, the walk over plan.steps (a TypeError if
\* it is undefined: the outer catch, up to its await of saveExecution), the
\* plan into the session, first step next.
PlanCreated ==
    /\ pc = "await_plan"
    /\ \E text \in PlannerTexts, compactSchema \in BOOLEAN :
          LET p == createPlan(text, compactSchema) IN
          /\ planText' = text
          /\ IF aborted
             THEN /\ outcome' = "aborted"
                  /\ reply' = Reply(<<>>)
                  /\ pc' = "done"
                  /\ UNCHANGED <<plan, stepIdx, results, session>>
             ELSE IF ~p.defined
             THEN /\ session' = Stamped(WithMessage(session,
                                           SessionMsg("assistant", "failed", 0, NoText)))
                  /\ pc' = "save_outer"
                  /\ UNCHANGED <<plan, stepIdx, results, outcome, reply>>
             ELSE /\ plan' = p.steps
                  /\ session' = WithMessage([session EXCEPT !.plan = p.steps],
                                            SessionMsg("assistant", "plan", 0, NoText))
                  /\ results' = <<>>
                  /\ stepIdx' = 1
                  /\ pc' = "step_head"
                  /\ UNCHANGED <<outcome, reply>>
    /\ UNCHANGED <<saved, abortPc>>
    /\ UNCHANGED <<envVars, rcVars, netVars, lpVars>>

\* createPlan rejects: the outer catch, up to its await of saveExecution.
PlanFailed ==
    /\ pc = "await_plan"
    /\ aborted' = FALSE
    /\ session' = Stamped(WithMessage(session,
                                      SessionMsg("assistant", "failed", 0, NoText)))
    /\ pc' = "save_outer"
    /\ UNCHANGED <<env, model, aborts, abortAt, plan, stepIdx, results, saved, outcome, reply,
                   planText, abortPc>>
    /\ UNCHANGED <<rcVars, netVars, lpVars>>

SaveOuterDone ==
    /\ pc = "save_outer"
    /\ saved' = Written(saved, session)
    /\ outcome' = "error"
    /\ reply' = Reply(<<>>)
    /\ UNCHANGED planText
    /\ pc' = "done"
    /\ UNCHANGED <<plan, stepIdx, results, session, abortPc>>
    /\ UNCHANGED <<envVars, rcVars, netVars, lpVars>>

\* Top of for (const step of plan.steps), up to the call of executeWithX;
\* past the last step, the final message up to await saveExecution.
StepHead ==
    /\ pc = "step_head"
    /\ IF stepIdx > Len(plan)
       THEN /\ session' = Stamped(WithMessage(session,
                                      SessionMsg("assistant", "completed", 0, NoText)))
            /\ pc' = "save_final"
            /\ UNCHANGED <<outcome, reply, planText, lpVars>>
       ELSE IF aborted
       THEN /\ outcome' = "aborted"
            /\ reply' = Reply(results)
            /\ UNCHANGED planText
            /\ pc' = "done"
            /\ UNCHANGED <<session, lpVars>>
       ELSE /\ session' = [session EXCEPT !.stepExecutions =
                              Append(@, StepExecution(plan[stepIdx]))]
            /\ currentStepToolCalls' = <<>>
            /\ pc' = "in_step"
            /\ UNCHANGED <<outcome, reply, planText>>
            /\ IF plan[stepIdx].agent \in {"claude", "ollama", "manager"}
               THEN LoopCall(plan[stepIdx].agent,
                             stepTask(plan[stepIdx], plan, results))
               ELSE /\ ret' = RetReturned(Text("Unknown agent", <<>>))
                    /\ lpPc' = "done"
                    /\ UNCHANGED <<lpAgent, task, stack, toolCallIterations, messages, curResponse,
                                   pending, toolResults, allToolCallsHistory, loopCalls>>
    /\ model' = IF /\ stepIdx <= Len(plan) /\ ~aborted
                   /\ plan[stepIdx].agent = "claude"
                   /\ plan[stepIdx].model # NoModel
                THEN setModel(model, "claude", plan[stepIdx].model)
                ELSE model
    /\ UNCHANGED <<plan, stepIdx, results, saved, abortPc>>
    /\ UNCHANGED <<env, aborted, aborts, abortAt, rcVars, netVars>>

\* executeWithX returned: the step is completed, up to await saveExecution.
StepReturn ==
    /\ pc = "in_step" /\ lpPc = "done" /\ ret.st = "ok"
    /\ results' = Append(results, ret.value)
    /\ session' = Stamped(WithLastStep(session, "completed", ret.value, Msg("", 0),
                                       currentStepToolCalls))
    /\ currentStepToolCalls' = <<>>
    /\ LoopLocalsGone
    /\ pc' = "save_completed"
    /\ UNCHANGED ret
    /\ UNCHANGED <<plan, stepIdx, saved, outcome, reply, planText, abortPc>>
    /\ UNCHANGED <<envVars, rcVars, netVars>>

\* executeWithX threw: the catch block, up to its first await saveExecution.
StepThrow ==
    /\ pc = "in_step" /\ lpPc = "done" /\ ret.st = "err"
    /\ session' = Stamped(WithLastStep(session, FailedStatus(ret.error), NoText,
                                       ret.error.message, currentStepToolCalls))
    /\ currentStepToolCalls' = <<>>
    /\ LoopLocalsGone
    /\ pc' = "save_failed"
    /\ UNCHANGED ret
    /\ UNCHANGED <<plan, stepIdx, results, saved, outcome, reply, planText, abortPc>>
    /\ UNCHANGED <<envVars, rcVars, netVars>>

\* The save of a completed step is through: its message, then the next step.
SaveCompletedDone ==
    /\ pc = "save_completed"
    /\ saved' = Written(saved, session)
    /\ session' = WithMessage(session,
                              SessionMsg("assistant", "step", plan[stepIdx].step, ret.value))
    /\ stepIdx' = NextStepIndex(stepIdx)
    /\ pc' = "step_head"
    /\ UNCHANGED <<plan, results, outcome, reply, planText, abortPc>>
    /\ UNCHANGED <<envVars, rcVars, netVars, lpVars>>

\* The save of a failed step is through: abort marker and a second save,
\* or the error message and the error response.
SaveFailedDone ==
    /\ pc = "save_failed"
    /\ saved' = Written(saved, session)
    /\ IF IsAbortMessage(ret.error.message)
       THEN /\ session' = Stamped(WithMessage(session, AbortMarker))
            /\ pc' = "save_aborted"
            /\ UNCHANGED <<results, outcome, reply, planText>>
       ELSE /\ results' = Append(results, Text("[BLAD]", <<>>))
            /\ session' = WithMessage(session,
                                      SessionMsg("assistant", "error",
                                                 plan[stepIdx].step, NoText))
            /\ outcome' = "error"
            /\ reply' = Reply(results')
            /\ UNCHANGED planText
            /\ pc' = "done"
    /\ UNCHANGED <<plan, stepIdx, abortPc>>
    /\ UNCHANGED <<envVars, rcVars, netVars, lpVars>>

SaveAbortedDone ==
    /\ pc = "save_aborted"
    /\ saved' = Written(saved, session)
    /\ outcome' = "aborted"
    /\ reply' = Reply(results)
    /\ UNCHANGED planText
    /\ pc' = "done"
    /\ UNCHANGED <<plan, stepIdx, results, session, abortPc>>
    /\ UNCHANGED <<envVars, rcVars, netVars, lpVars>>

SaveFinalDone ==
    /\ pc = "save_final"
    /\ saved' = Written(saved, session)
    /\ outcome' = "completed"
    /\ reply' = Reply(results)
    /\ UNCHANGED planText
    /\ pc' = "done"
    /\ UNCHANGED <<plan, stepIdx, results, session, abortPc>>
    /\ UNCHANGED <<envVars, rcVars, netVars, lpVars>>

(***************************************************************************)
(* MagenticOrchestrator.executePlan(plan)                                  *)
(***************************************************************************)
\* `Step ${step.step} (${step.agent}): ${result}`
PlanResult(step, value) ==
    [step |-> step.step, agent |-> step.agent, text |-> value.text,
     hist |-> value.hist]

\* The call, up to the for loop.
ExecutePlan ==
    /\ pc = "idle" /\ Finished /\ lpPc = "idle"
    /\ \E p \in Plans : plan' = p
    /\ results' = <<>>
    /\ stepIdx' = 1
    /\ pc' = "plan_head"
    /\ outcome' = "none" /\ reply' = NoReply /\ UNCHANGED planText
    /\ UNCHANGED <<session, saved, abortPc>>
    /\ UNCHANGED <<envVars, rcVars, netVars, lpVars>>

\* Top of for (const step of plan.steps), up to the call of executeWithX;
\* past the last step, the return of the joined results.
PlanStepHead ==
    /\ pc = "plan_head"
    /\ IF stepIdx > Len(plan)
       THEN /\ outcome' = "completed"
            /\ reply' = Reply(results)
            /\ UNCHANGED planText
            /\ pc' = "done"
            /\ UNCHANGED <<results, stepIdx, lpVars>>
       ELSE IF plan[stepIdx].agent \in {"claude", "ollama", "manager"}
       THEN /\ LoopCall(plan[stepIdx].agent,
                       Instruction(plan[stepIdx].description, <<>>))
            /\ pc' = "plan_step"
            /\ UNCHANGED <<results, stepIdx, outcome, reply, planText, currentStepToolCalls>>
       ELSE /\ results' = Append(results,
                                 PlanResult(plan[stepIdx], Text("Unknown agent", <<>>)))
            /\ stepIdx' = NextStepIndex(stepIdx)
            /\ UNCHANGED <<pc, outcome, reply, planText, lpVars>>
    /\ model' = IF /\ stepIdx <= Len(plan)
                   /\ plan[stepIdx].model # NoModel
                   /\ \/ plan[stepIdx].agent = "claude"
                      \/ plan[stepIdx].agent = "ollama" /\ env.ollama
                THEN setModel(model, plan[stepIdx].agent, plan[stepIdx].model)
                ELSE model
    /\ UNCHANGED <<plan, session, saved, abortPc>>
    /\ UNCHANGED <<env, aborted, aborts, abortAt, rcVars, netVars>>

\* executeWithX returned: results.push, next step.
PlanStepReturn ==
    /\ pc = "plan_step" /\ lpPc = "done" /\ ret.st = "ok"
    /\ results' = Append(results, PlanResult(plan[stepIdx], ret.value))
    /\ stepIdx' = NextStepIndex(stepIdx)
    /\ LoopLocalsGone
    /\ pc' = "plan_head"
    /\ UNCHANGED <<currentStepToolCalls, ret>>
    /\ UNCHANGED <<plan, session, saved, outcome, reply, planText, abortPc>>
    /\ UNCHANGED <<envVars, rcVars, netVars>>

\* executeWithX threw: nothing catches it, executePlan rejects with the
\* error and the local results are gone.
PlanStepThrow ==
    /\ pc = "plan_step" /\ lpPc = "done" /\ ret.st = "err"
    /\ outcome' = FailedStatus(ret.error)
    /\ reply' = Reply(<<>>)
    /\ UNCHANGED planText
    /\ LoopLocalsGone
    /\ pc' = "done"
    /\ UNCHANGED <<currentStepToolCalls, ret>>
    /\ UNCHANGED <<plan, stepIdx, results, session, saved, abortPc>>
    /\ UNCHANGED <<envVars, rcVars, netVars>>

(***************************************************************************)
(* Initial states                                                          *)
(***************************************************************************)
H(text) == Opt(TRUE, text)
Missing == Opt(FALSE, <<>>)

\* SDK errors, by what the adapter makes of them.
Limit2 == ApiError(429, "rate_limit_error", H(<<"2">>), Missing)
Limit5 == ApiError(429, "rate_limit_error", Missing, H(<<"5">>))
LimitDefault == ApiError(429, "rate_limit_error", Missing, Missing)
LimitTypeOnly == ApiError(500, "rate_limit_error", H(<<"1", "s">>), Missing)
LimitZero == ApiError(429, "rate_limit_error", H(<<"0">>), Missing)
LimitDate == ApiError(429, "rate_limit_error", H(<<"W", "e", "d">>), H(<<"5">>))
Overloaded == ApiError(529, "overloaded_error", Missing, Missing)

RetryFaults == {Limit2, Limit5, LimitDefault, LimitTypeOnly, LimitZero, LimitDate,
                Overloaded}

RcIdle ==
    /\ rcPc = "idle" /\ attempt = 0 /\ maxRetries = DefaultMaxRetries
    /\ lastError = NoError /\ rcLog = <<>> /\ sleepLeft = 0 /\ slept = 0
    /\ lateness = 0

LpIdle ==
    /\ lpPc = "idle" /\ lpAgent = "none" /\ task = NoTask /\ stack = <<>>
    /\ toolCallIterations = 0
    /\ messages = <<>> /\ curResponse = NoResponse /\ pending = <<>>
    /\ toolResults = <<>> /\ allToolCallsHistory = <<>>
    /\ currentStepToolCalls = <<>> /\ loopCalls = 0 /\ ret = NoRet

RunIdle ==
    /\ pc = "idle" /\ plan = NoPlan /\ stepIdx = 0 /\ results = <<>>
    /\ session = NoSession /\ saved = NoSession
    /\ outcome = "none" /\ reply = NoReply /\ planText = NoPlannerText
    /\ abortPc = "idle"

\* One call executeClaudeWithRetry(messages, [], m) on a fresh orchestrator.
InitRetry ==
    /\ env = [lists |-> {}, roundCap |-> 0, faults |-> RetryFaults,
               directFaults |-> {}, mcp |-> {}, mcpFails |-> FALSE,
               servers |-> {}, ollama |-> FALSE, agents |-> {}, texts |-> FinalTexts, nesting |-> MaxNesting]
    /\ aborted = FALSE /\ aborts = 0 /\ abortAt = NoAbort
    /\ model = ConfiguredModels
    /\ rcPc = "attempt" /\ attempt = 1 /\ maxRetries \in 1..DefaultMaxRetries
    /\ lastError = NoError /\ rcLog = <<>> /\ sleepLeft = 0 /\ slept = 0
    /\ lateness = 0
    /\ net = "none" /\ resp = NoResp
    /\ LpIdle
    /\ RunIdle

NextRetry ==
    \/ RetryAttempt
    \/ ClaudeReturns
    \/ ClaudeThrows
    \/ TimerTick
    \/ SleepDone
    \/ AbortRequest

SpecRetry == InitRetry /\ [][NextRetry]_vars


(***************************************************************************)
(* Direct chat: one call of MagenticOrchestrator.chat                      *)
(***************************************************************************)
Lookup == <<"lookup">>
McpRead == <<"mcp", "neo4j", "read">>
McpGhost == <<"mcp", "ghost", "read">>
McpBad == <<"mcp", "x">>

Rows == Output("data", "rows", 40)
Dump == Output("data", "dump", 15000)
Edge == Output("data", "edge", TRUNCATE_AT)
Over == Output("data", "over", TRUNCATE_AT + 1)

\* Backends that ask for every kind of tool and fail in every way, for a
\* few rounds.
VariedEnv ==
    [lists |-> {<<Lookup>>, <<McpRead>>, <<Lookup, McpRead>>, <<McpGhost>>, <<McpBad>>},
     roundCap |-> MaxToolRounds,
     faults |-> {Limit2, Overloaded},
     directFaults |-> {429, 500},
     mcp |-> {Rows, Dump, Edge, Over},
     mcpFails |-> TRUE,
     servers |-> {"neo4j"},
     ollama |-> TRUE,
     agents |-> {},
     texts |-> FinalTexts, nesting |-> MaxNesting]

\* Backends that never stop asking for tools, and nothing fails.
DeepEnv ==
    [lists |-> {<<Lookup, McpRead>>},
     roundCap |-> MAX_TOOL_ITERATIONS + 1,
     faults |-> {},
     directFaults |-> {},
     mcp |-> {Rows},
     mcpFails |-> FALSE,
     servers |-> {"neo4j"},
     ollama |-> TRUE,
     agents |-> {},
     texts |-> FinalTexts, nesting |-> MaxNesting]

InitLoop ==
    /\ env \in {VariedEnv, DeepEnv}
    /\ aborted = FALSE /\ aborts = 0 /\ abortAt = NoAbort
    /\ model = ConfiguredModels
    /\ RcIdle
    /\ net = "none" /\ resp = NoResp
    /\ LpIdle
    /\ RunIdle

NextLoop ==
    \/ Chat
    \/ ExecuteWithEnter
    \/ LoopHead
    \/ RetryAttempt
    \/ ClaudeReturns
    \/ ClaudeThrows
    \/ TimerTick
    \/ SleepDone
    \/ DirectReturns
    \/ DirectThrows
    \/ LoopOnResult
    \/ DispatchTool
    \/ McpReturns
    \/ McpThrows
    \/ RoundEnd
    \/ AbortRequest

SpecLoop == InitLoop /\ [][NextLoop]_vars


(***************************************************************************)
(* Direct chat with backends that delegate to one another                  *)
(***************************************************************************)
NestedEnv ==
    [lists |-> {<<InvokeGemini>>, <<Lookup, InvokeClaude>>, <<WebSearch>>},
     roundCap |-> MaxToolRounds,
     faults |-> {},
     directFaults |-> {500},
     mcp |-> {Rows},
     mcpFails |-> FALSE,
     servers |-> {"neo4j"},
     ollama |-> TRUE,
     agents |-> {},
     texts |-> FinalTexts, nesting |-> MaxNesting]

InitNested ==
    /\ env = NestedEnv
    /\ aborted = FALSE /\ aborts = 0 /\ abortAt = NoAbort
    /\ model = ConfiguredModels
    /\ RcIdle
    /\ net = "none" /\ resp = NoResp
    /\ LpIdle
    /\ RunIdle

NextNested ==
    \/ Chat
    \/ ExecuteWithEnter
    \/ LoopHead
    \/ RetryAttempt
    \/ ClaudeReturns
    \/ DirectReturns
    \/ DirectThrows
    \/ LoopOnResult
    \/ GeminiOnResult
    \/ DispatchTool
    \/ CrossAgentCall
    \/ NestedReturns
    \/ NestedThrows
    \/ RoundEnd
    \/ AbortRequest

SpecNested == InitNested /\ [][NextNested]_vars


(***************************************************************************)
(* The server: /api/execute runs and abort requests                        *)
(***************************************************************************)
\* A deployment whose planner delegates to the given backends.
RunEnv(agents) ==
    [lists |-> {<<Lookup>>, <<McpRead>>},
     roundCap |-> MaxToolRounds,
     faults |-> {Limit2, Overloaded},
     directFaults |-> {500},
     mcp |-> {Rows},
     mcpFails |-> TRUE,
     servers |-> {"neo4j"},
     ollama |-> TRUE,
     agents |-> agents,
     texts |-> {"A"}, nesting |-> MaxNesting]

RunEnvs == {RunEnv({"claude", "manager"}), RunEnv({"ollama", "mlx"})}

Init ==
    /\ env \in RunEnvs
    /\ aborted = FALSE /\ aborts = 0 /\ abortAt = NoAbort
    /\ model = ConfiguredModels
    /\ RcIdle
    /\ net = "none" /\ resp = NoResp
    /\ LpIdle
    /\ RunIdle

Next ==
    \/ ExecuteRequest
    \/ PlanCreated
    \/ PlanFailed
    \/ SaveOuterDone
    \/ StepHead
    \/ StepReturn
    \/ StepThrow
    \/ SaveCompletedDone
    \/ SaveFailedDone
    \/ SaveAbortedDone
    \/ SaveFinalDone
    \/ AbortRequest
    \/ AbortSaved
    \/ ExecuteWithEnter
    \/ LoopHead
    \/ RetryAttempt
    \/ ClaudeReturns
    \/ ClaudeThrows
    \/ TimerTick
    \/ SleepDone
    \/ DirectReturns
    \/ DirectThrows
    \/ LoopOnResult
    \/ DispatchTool
    \/ McpReturns
    \/ McpThrows
    \/ RoundEnd

Spec == Init /\ [][Next]_vars

(***************************************************************************)
(* The library call: one executePlan on an orchestrator whose abort flag   *)
(* the host may set                                                        *)
(***************************************************************************)
InitPlan ==
    /\ env \in RunEnvs
    /\ aborted = FALSE /\ aborts = 0 /\ abortAt = NoAbort
    /\ model = ConfiguredModels
    /\ RcIdle
    /\ net = "none" /\ resp = NoResp
    /\ LpIdle
    /\ RunIdle

NextPlan ==
    \/ ExecutePlan
    \/ PlanStepHead
    \/ PlanStepReturn
    \/ PlanStepThrow
    \/ AbortRequest
    \/ ExecuteWithEnter
    \/ LoopHead
    \/ RetryAttempt
    \/ ClaudeReturns
    \/ ClaudeThrows
    \/ TimerTick
    \/ SleepDone
    \/ DirectReturns
    \/ DirectThrows
    \/ LoopOnResult
    \/ DispatchTool
    \/ McpReturns
    \/ McpThrows
    \/ RoundEnd

SpecPlan == InitPlan /\ [][NextPlan]_vars


(***************************************************************************)
(* The server when a second /api/execute request arrives during a run.     *)
(* The handler has no test for a run in progress; the model follows the    *)
(* server up to the second handler's first await.                          *)
(***************************************************************************)
\* A run is in progress: its handler has not responded yet.
RunInProgress == pc \notin {"idle", "done"}

\* The handler of a second request, up to await createPlan.
SecondExecuteRequest ==
    /\ RunInProgress /\ AtAwait
    /\ session.id = FirstId
    /\ aborted' = FALSE
    /\ session' = [id |-> SecondId,
                   messages |-> <<SessionMsg("user", "task", 0, NoText)>>,
                   stepExecutions |-> <<>>, plan |-> NoPlan,
                   updatedAt |-> Later(session.updatedAt)]
    /\ UNCHANGED <<env, model, aborts, abortAt>>
    /\ UNCHANGED <<pc, plan, stepIdx, results, saved, outcome, reply, planText, abortPc>>
    /\ UNCHANGED <<rcVars, netVars, lpVars>>

NextTwo ==
    \/ session.id # SecondId /\ Next
    \/ SecondExecuteRequest

SpecTwo == Init /\ [][NextTwo]_vars


(***************************************************************************)
(* Properties                                                              *)
(***************************************************************************)
Notifs == SelectSeq(rcLog, LAMBDA e : e.ev = "notify")
Invocations == Len(SelectSeq(rcLog, LAMBDA e : e.ev = "invoke"))

\* The controller call has ended by running out of attempts.
Exhausted == rcPc = "done" /\ attempt > maxRetries

MinWait == CHOOSE w \in {Notifs[i].w : i \in 1..Len(Notifs)} :
               \A i \in 1..Len(Notifs) : w <= Notifs[i].w

IsResolutionLoop == lpAgent \in {"claude", "ollama"}

IsMaxIterations(error) ==
    error.message.text = "Maximum tool call iterations exceeded"

DispatchFailures == {"MCP tool call failed", "MCP server not found",
                     "Invalid MCP tool name format"}

\* The step in progress has failed with an error that is not a cancellation.
StepFailed == ret.st = "err" /\ ~IsAbortMessage(ret.error.message)

\* C1: when the step at position k of a run ends with an error that is not a
\* cancellation, the session holds exactly k step records once the catch
\* block has run, record k is 'error', records 1..k-1 are 'completed', and
\* the run returns without a record for a later position.
C1_FailedStepIsLast ==
    (pc \in {"save_failed", "done"} /\ StepFailed) =>
        /\ Len(session.stepExecutions) = stepIdx
        /\ stepIdx <= Len(plan)
        /\ session.stepExecutions[stepIdx].status = "error"
        /\ \A i \in 1..(stepIdx - 1) :
              session.stepExecutions[i].status = "completed"
        /\ \A i \in 1..stepIdx :
              session.stepExecutions[i].stepNumber = plan[i].step
        /\ (pc = "done" => outcome = "error")

C1_Witness ==
    /\ pc = "done" /\ StepFailed
    /\ Len(plan) = 2
    /\ Len(session.stepExecutions) = 1
    /\ session.stepExecutions[1].status = "error"

\* C2: after an abort request that arrives once a run has started and
\* before the step at position k begins, no step record for position k or
\* a later one exists, and the run, when it returns, returns aborted.
C2_AbortedRunEndsAborted ==
    abortAt # NoAbort =>
        /\ Len(session.stepExecutions) <= abortAt
        /\ (pc = "done" /\ (plan = NoPlan \/ abortAt < Len(plan)))
              => outcome = "aborted"

\* C3: no more than one second of a backoff sleep passes with the abort
\* flag set: the controller raises the cancellation without waiting out
\* the sleep, whatever the wait.
C3_AbortCutsSleepShort == lateness <= 1

C5_RetryBudget ==
    /\ Invocations <= maxRetries
    /\ Exhausted =>
          /\ Invocations = maxRetries
          /\ Len(Notifs) = maxRetries
          /\ slept >= (maxRetries - 1) * MinWait

C5_Witness ==
    /\ Exhausted /\ maxRetries = DefaultMaxRetries
    /\ \A i \in 1..Len(Notifs) : Notifs[i].w = 5
    /\ slept >= 10

\* C6: an error that is not a rate-limit signal is thrown to the caller by
\* the attempt that met it: nothing is notified and no sleep starts after
\* that invocation, and on a first attempt the call ends with one
\* invocation, no notification and no sleep.
C6_FatalNotRetried ==
    /\ rcPc = "sleeping" => lastError.isRateLimit
    /\ (rcPc = "done" /\ resp.st = "err" /\ resp.error.message.text = "api error") =>
          /\ rcLog[Len(rcLog)] = LogInvoke(attempt)
          /\ Invocations = attempt
          /\ (attempt = 1 => Len(rcLog) = 1 /\ slept = 0)

C6_Witness ==
    /\ rcPc = "done" /\ resp.st = "err"
    /\ resp.error.message.text = "api error"
    /\ rcLog = <<LogInvoke(1)>>

\* C7: the i-th notification of a controller call carries (the wait of
\* attempt i, i, maxRetries), follows the i-th invocation and precedes the
\* i-th sleep; a call that succeeds on attempt j has emitted exactly j - 1.
C7_Notifications ==
    /\ \A k \in 1..Len(rcLog) :
          rcLog[k].ev = "notify" =>
             /\ k > 1 /\ k < Len(rcLog)
             /\ rcLog[k - 1] = LogInvoke(rcLog[k].attempt)
             /\ rcLog[k + 1] = LogSleep(rcLog[k].w, rcLog[k].attempt)
             /\ rcLog[k].max = maxRetries
    /\ \A i \in 1..Len(Notifs) : Notifs[i].attempt = i
    /\ rcPc = "sleeping" => Notifs[Len(Notifs)].w = lastError.retryAfter
    /\ (rcPc = "done" /\ resp.st = "ok") =>
          /\ Len(Notifs) = attempt - 1
          /\ Invocations = attempt

C7_Witness ==
    /\ rcPc = "done" /\ resp.st = "ok"
    /\ maxRetries = DefaultMaxRetries
    /\ Notifs = <<LogNotify(5, 1, DefaultMaxRetries)>>

\* C8: a rate-limit signal recognised by the Claude adapter carries a usable
\* wait and is thrown to the caller of the controller only after the retry
\* budget is used up.
C8_RateLimitAlwaysRetried ==
    (rcPc = "done" /\ resp.st = "err" /\ resp.error.isRateLimit) =>
        /\ Truthy(resp.error.retryAfter)
        /\ attempt > maxRetries

\* C9: every backend request of a resolution loop, Ollama's as Claude's, is
\* issued by the retry controller, so a loop fails on a rate limit (HTTP
\* 429) only after three invocations.
C9_AllThroughController ==
    /\ (IsResolutionLoop /\ net = lpAgent) => rcPc = "calling"
    /\ (lpPc = "done" /\ lpAgent = "ollama" /\ ret.st = "err"
        /\ ret.error.message = Msg("API error", 429))
          => Invocations = DefaultMaxRetries

\* C10: a tool dispatch failure (unknown tool, failing tool-server call)
\* never ends a resolution loop: no loop throws a dispatch failure.
C10_DispatchFailureAbsorbed ==
    (lpPc = "done" /\ IsResolutionLoop /\ ret.st = "err")
        => ret.error.message.text \notin DispatchFailures


(***************************************************************************)
(* Tool-result truncation                                                  *)
(***************************************************************************)
\* A tool-result turn has just been pushed for the outputs in toolResults.
RoundJustEnded == lpPc = "head" /\ toolResults # <<>> /\ messages # <<>>

LastTurn == messages[Len(messages)]

\* The characters of a string that come from the tool output itself.
RECURSIVE OwnChars(_)
OwnChars(s) ==
    IF s = <<>> THEN 0
    ELSE (IF Head(s).tag = "suffix" THEN 0 ELSE Head(s).n) + OwnChars(Tail(s))

\* C11: every tool-result output in a backend's message history carries at
\* most 10,000 characters of the output, whatever the tool and whichever
\* loop (Claude or Ollama) fed it back.
C11_TruncatedUniformly ==
    \A i \in 1..Len(messages) :
        \A k \in DOMAIN messages[i].results :
            OwnChars(messages[i].results[k].content) <= TRUNCATE_AT

\* C12: truncating an already truncated tool result again at the same
\* ceiling gives the same string.
C12_TruncationIdempotent ==
    (RoundJustEnded /\ lpAgent = "claude") =>
        \A k \in DOMAIN LastTurn.results :
            LET once == truncateToolResult(toolResults[k].output, TRUNCATE_AT)
            IN  truncateToolResult(StringValue(once), TRUNCATE_AT) = once

\* C13: a string form of at most 10,000 characters is returned unchanged;
\* a longer one becomes its first 10,000 characters followed by a suffix
\* stating the number of elided characters (5000 for 15,000 characters).
C13_TruncateToolResult ==
    (RoundJustEnded /\ lpAgent = "claude") =>
        \A k \in DOMAIN LastTurn.results :
            LET o == toolResults[k].output
                c == LastTurn.results[k].content
            IN  /\ o.len <= TRUNCATE_AT => c = JsonStringify(o)
                /\ o.len > TRUNCATE_AT =>
                      /\ Len(c) = 2
                      /\ c[1] = Run("json", o.text, 0, 0, TRUNCATE_AT)
                      /\ c[2].tag = "suffix"
                      /\ c[2].a = o.len - TRUNCATE_AT
                      /\ c[2].n > 0
                /\ o.len = 15000 => c[2].a = 5000

C13_Witness ==
    /\ RoundJustEnded /\ lpAgent = "claude"
    /\ \E k \in DOMAIN LastTurn.results :
          /\ toolResults[k].output = Dump
          /\ LastTurn.results[k].content =
                <<Run("json", "dump", 0, 0, 10000), Run("suffix", "", 5000, 15000, 138)>>

(***************************************************************************)
(* Order of tool calls within a round                                      *)
(***************************************************************************)
RoundCalls == curResponse.toolCalls

\* The entries of the trace that the current round has pushed so far.
RoundTrace ==
    SubSeq(currentStepToolCalls,
           Len(currentStepToolCalls) - Len(toolResults) + 1,
           Len(currentStepToolCalls))

Occurrences(id) ==
    Cardinality({k \in 1..Len(currentStepToolCalls) : currentStepToolCalls[k].id = id})

\* C14: within a round the tool calls of a response are dispatched one at a
\* time, each once, in the order the backend emitted them, and their
\* results stand in that order in the trace and in the tool-result turn.
C14_DispatchInOrder ==
    /\ (IsResolutionLoop /\ lpPc = "dispatch") =>
          LET done == Len(toolResults) IN
          /\ done + Len(pending) = Len(RoundCalls)
          /\ \A k \in 1..Len(pending) : pending[k] = RoundCalls[done + k]
          /\ Len(currentStepToolCalls) >= done
          /\ \A k \in 1..done :
                /\ toolResults[k].toolCallId = RoundCalls[k].id
                /\ RoundTrace[k].id = RoundCalls[k].id
                /\ RoundTrace[k].name = RoundCalls[k].name
                /\ RoundTrace[k].result = toolResults[k].output
                /\ Occurrences(RoundCalls[k].id) = 1
          /\ \A k \in 1..Len(pending) : Occurrences(pending[k].id) = 0
          /\ net = "mcp" => (pending # <<>> /\ DispatchKind(Head(pending).name) = "call")
    /\ (IsResolutionLoop /\ RoundJustEnded) =>
          /\ Len(LastTurn.results) = Len(RoundCalls)
          /\ Len(toolResults) = Len(RoundCalls)
          /\ \A k \in 1..Len(RoundCalls) :
                /\ LastTurn.results[k].id = RoundCalls[k].id
                /\ RoundTrace[k].id = RoundCalls[k].id
                /\ RoundTrace[k].result = toolResults[k].output
                /\ Occurrences(RoundCalls[k].id) = 1

C14_Witness ==
    /\ IsResolutionLoop /\ RoundJustEnded
    /\ Len(RoundCalls) = 2
    /\ RoundCalls[1].name = Lookup /\ RoundCalls[2].name = McpRead
    /\ LastTurn.results[1].id = RoundCalls[1].id
    /\ LastTurn.results[2].id = RoundCalls[2].id
    /\ RoundTrace[2].result = Rows

(***************************************************************************)
(* Step records and their persistence                                      *)
(***************************************************************************)
\* A plan step is running: its record exists and its result is not yet in.
StepRunning == pc = "in_step"

\* C15: once the record of a step exists with status 'executing', and for
\* as long as the step runs, the stored session shows that record as
\* 'executing'.
C15_ExecutingStepPersisted ==
    StepRunning =>
        /\ Len(saved.stepExecutions) = Len(session.stepExecutions)
        /\ saved.stepExecutions[LastStep(saved)].status = "executing"

TerminalStatuses == {"completed", "error", "aborted"}

\* C16: a step record starts as 'executing', moves once to 'completed',
\* 'error' or 'aborted' and stays there; none is 'executing' when the run
\* has returned.
C16_StepStatusMachine ==
    [][/\ Len(session'.stepExecutions) >= Len(session.stepExecutions)
       /\ \A k \in 1..Len(session'.stepExecutions) :
             LET after == session'.stepExecutions[k].status IN
             IF k > Len(session.stepExecutions)
             THEN after = "executing"
             ELSE LET before == session.stepExecutions[k].status IN
                  /\ before \in TerminalStatuses => after = before
                  /\ before = "executing" =>
                        after \in TerminalStatuses \cup {"executing"}
       /\ pc' = "done" =>
             \A k \in 1..Len(session'.stepExecutions) :
                 session'.stepExecutions[k].status \in TerminalStatuses]_vars

C16_Witness ==
    /\ pc = "done"
    /\ Len(session.stepExecutions) = 2
    /\ session.stepExecutions[1].status = "completed"
    /\ session.stepExecutions[2].status = "error"

\* The step in progress or just ended was cancelled by the resolution loop.
StepCancelled == ret.st = "err" /\ ret.error = AbortError

Markers(sess) == Len(SelectSeq(sess.messages, LAMBDA m : m = AbortMarker))

HasMessage(sess, kinds) == \E i \in 1..Len(sess.messages) : sess.messages[i].kind \in kinds

\* C18: a finished run has one of the outcomes completed, aborted, error,
\* and no session carries an abort marker together with a completion
\* marker or an error marker.
C18_SingleOutcome ==
    /\ pc = "done" => outcome \in {"completed", "aborted", "error"}
    /\ ~(/\ HasMessage(session, {"aborted"})
          /\ HasMessage(session, {"completed", "error", "failed"}))

\* A run or an executePlan call has ended before the end of its plan.
EndedEarly == pc = "done" /\ outcome \in {"error", "aborted"}

\* C19: when a run ends early after some steps have completed, what the
\* caller gets contains the results of those steps.
C19_PartialResultsSurfaced ==
    EndedEarly =>
        /\ reply.sent
        /\ Len(reply.results) >= Len(results)
        /\ \A i \in 1..Len(results) : reply.results[i] = results[i]

(***************************************************************************)
(* Planning                                                                *)
(***************************************************************************)
\* The planner's text yields no structured block, or an object that is not
\* a Plan.
BadPlannerOutput ==
    /\ planText.given
    /\ ~planText.braces \/ ~planText.parses \/ ~planText.hasSteps

\* The run was aborted while the planner was asked.
AbortedWhilePlanning == pc = "done" /\ outcome = "aborted" /\ session.plan = NoPlan

\* C20: whenever the planner's text has no structured block or the block is
\* not a Plan, createPlan returns the single-step fallback Plan (agent
\* 'claude', description = task) and the run proceeds with it.
C20_FallbackPlan ==
    (BadPlannerOutput /\ ~AbortedWhilePlanning) =>
        /\ plan = FallbackPlan.steps
        /\ session.plan = plan
        /\ pc # "save_outer"

(***************************************************************************)
(* The instruction of a step                                               *)
(***************************************************************************)
\* The step at the for loop's position has been handed to a backend.
StepSent ==
    /\ pc = "in_step" /\ lpPc \notin {"idle", "enter"}
    /\ plan[stepIdx].agent \in {"claude", "ollama", "manager"}
    /\ messages # <<>>

\* C21: for every step at position k > 1, the instruction sent to its
\* backend is the step's description followed by one delimited context
\* block that holds, for each earlier position i = 1..k-1 in plan order,
\* step i's number, agent and description with the result text of step i.
C21_ContextBlock ==
    (StepSent /\ stepIdx > 1) =>
        LET sent == messages[1].text
        IN  /\ messages[1].role = "user"
            /\ sent.description = plan[stepIdx].description
            /\ Len(sent.blocks) = 1
            /\ Len(sent.blocks[1]) = stepIdx - 1
            /\ \A i \in 1..(stepIdx - 1) :
                  /\ sent.blocks[1][i].step = plan[i].step
                  /\ sent.blocks[1][i].agent = plan[i].agent
                  /\ sent.blocks[1][i].description = plan[i].description
                  /\ sent.blocks[1][i].result = session.stepExecutions[i].response

C21_Witness ==
    /\ StepSent /\ stepIdx = 2 /\ loopCalls >= 1
    /\ plan[1].agent # plan[2].agent
    /\ messages[1].text.blocks[1][1].result.text = "A"

(***************************************************************************)
(* Cross-agent calls                                                       *)
(***************************************************************************)
\* The step hands the result of a nested call back to the call awaiting it.
NestedCallOver == stack # <<>> /\ Len(stack') < Len(stack) /\ ret.st = "ok"

\* The step ends a tool round of a resolution loop.
RoundOver == lpPc = "dispatch" /\ lpPc' = "head"

\* The step takes a backend's answer without tool calls.
FinalTurn ==
    /\ lpPc = "await" /\ lpPc' # "await"
    /\ resp.st = "ok" /\ resp.response.toolCalls = <<>>

\* What a backend is shown of a text a nested call returned.
ShownAs(agent, text) ==
    IF agent = "claude"
    THEN <<Run("text", text, 0, 0, TextLength)>>
    ELSE <<Quote, Run("text", text, 0, 0, TextLength), Quote>>

C23_OneRunAtATime ==
    [][RunInProgress =>
          /\ session'.id = session.id
          /\ Len(session'.stepExecutions) >= Len(session.stepExecutions)
          /\ (aborted /\ ~aborted') => pc' # pc]_vars

(***************************************************************************)
(* Time stamps                                                             *)
(***************************************************************************)
\* The step stores the session of an id that has been stored before.
SavedAgain == saved' # saved /\ saved.id # 0 /\ saved'.id = saved.id

RunEnded == pc = "done" /\ abortPc = "idle" /\ session.id # 0

\* C25: after a run ends, completed, aborted or failed, the persisted
\* session document equals the final in-memory session: every step record
\* with its terminal status, and the terminal transcript message.
C25_StoredSessionIsFinal ==
    RunEnded =>
        /\ saved.id = session.id
        /\ saved.stepExecutions = session.stepExecutions
        /\ \A k \in 1..Len(saved.stepExecutions) :
              saved.stepExecutions[k].status \in TerminalStatuses
        /\ saved.messages = session.messages

(***************************************************************************)
(* The abort flag across operations                                        *)
(***************************************************************************)
\* executePlan has been called and has started no step yet; chat has made
\* its call of executeWithX.
OperationStarts ==
    \/ pc = "plan_head" /\ stepIdx = 1 /\ lpPc = "idle"
    \/ pc = "idle" /\ lpPc = "enter" /\ stack = <<>>

\* C26: an abort request affects only the run in progress when it is made:
\* the abort flag is false at the start of every run and of every direct
\* chat, and no operation is rejected as aborted unless an abort request
\* arrived while it was in progress.
C26_AbortFlagReset ==
    /\ OperationStarts => ~aborted
    /\ StepCancelled => abortAt # NoAbort

(***************************************************************************)
(* The tool-call trace of a step                                           *)
(***************************************************************************)
\* A trace entry that records a failure: its isError is true.
RecordedAsError(entry) == "isError" \in DOMAIN entry /\ entry.isError

\* The dispatch of a tool call has just failed the step.
DispatchFailedStep ==
    /\ pc = "save_failed" /\ ret.st = "err"
    /\ ret.error.message.text \in DispatchFailures

\* C27: every tool call dispatched during a step appears in that step's
\* tool-call trace with its result, whether the dispatch succeeded or
\* failed, and a failed dispatch (unknown tool, tool-server failure) is
\* recorded as a result with isError = true.
C27_TraceHoldsFailures ==
    /\ DispatchFailedStep =>
          \E i \in 1..Len(session.stepExecutions[stepIdx].toolCalls) :
             RecordedAsError(session.stepExecutions[stepIdx].toolCalls[i])
    /\ \A k \in 1..Len(session.stepExecutions) :
          \A i \in 1..Len(session.stepExecutions[k].toolCalls) :
             session.stepExecutions[k].toolCalls[i].result.kind = "error" =>
                RecordedAsError(session.stepExecutions[k].toolCalls[i])

(***************************************************************************)
(* The abort flag after a suspension                                       *)
(***************************************************************************)
\* The step dispatches a tool call of the round.
Dispatches ==
    /\ lpPc = "dispatch" /\ net = "none" /\ pending # <<>>
    /\ net' = "mcp" \/ pending' # pending \/ lpPc' = "done"

\* The step records the plan step in progress as 'completed'.
Completes == pc = "in_step" /\ pc' = "save_completed"

\* C28: the abort flag is re-checked right after each suspension: once the
\* flag is set during a step (a step starts only with the flag clear, and
\* the flag is set only while the step is suspended), no tool is
\* dispatched and the step is not recorded as 'completed'.
C28_AbortCheckedAfterSuspension ==
    [][(pc = "in_step" /\ aborted) => ~Dispatches /\ ~Completes]_vars

(***************************************************************************)
(* The order of the steps                                                  *)
(***************************************************************************)
\* C29: steps are started strictly in plan position order and one at a
\* time: at every moment the session's stepExecutions is a positional
\* prefix of the plan's steps in which every record but the last is
\* 'completed'.
C29_StepsInPlanOrder ==
    /\ Len(session.stepExecutions) <= Len(plan)
    /\ \A i \in 1..Len(session.stepExecutions) :
          /\ session.stepExecutions[i].stepNumber = plan[i].step
          /\ session.stepExecutions[i].agent = plan[i].agent
          /\ i < Len(session.stepExecutions) =>
                session.stepExecutions[i].status = "completed"
    /\ pc \in {"in_step", "save_completed", "save_failed", "save_aborted"} =>
          Len(session.stepExecutions) = stepIdx

\* The second step of a plan runs after the first has completed.
C29_Witness ==
    /\ pc = "in_step" /\ net # "none"
    /\ Len(session.stepExecutions) = 2
    /\ session.stepExecutions[1].status = "completed"
    /\ session.stepExecutions[2].status = "executing"
    /\ session.stepExecutions[1].agent # session.stepExecutions[2].agent

(***************************************************************************)
(* What a later step is told of an earlier one                             *)
(***************************************************************************)
\* A result that is the backend's final text and nothing else: what every
\* run with that final text yields, whatever tools it called.
FinalTextOnly(result) == result = Text(result.text, <<>>)

\* C30: the instruction given to step k+1 depends only on the final
\* textual answers of earlier steps, never on their tool-call traces: each
\* result in the context block is the final text of its step alone, so two
\* runs with the same final texts hand step k+1 the same instruction.
C30_NoTraceInInstruction ==
    (StepSent /\ stepIdx > 1) =>
        \A i \in 1..Len(messages[1].text.blocks[1]) :
           FinalTextOnly(messages[1].text.blocks[1][i].result)

(***************************************************************************)
(* The model a step runs with                                              *)
(***************************************************************************)
\* The backends whose adapter has a setModel the step loop may call.
SelectsModel == {"claude", "ollama"}

\* A step of the run is with its backend.
StepWithBackend(agent) ==
    /\ pc \in {"in_step", "plan_step"}
    /\ stepIdx <= Len(plan)
    /\ plan[stepIdx].agent = agent
    /\ stack = <<>>

\* C31: when a plan step carries a model, the adapter of the step's backend
\* (Claude or Ollama) is set to that model before the step's first backend
\* invocation, on the /api/execute path as in executePlan.
C31_StepModelSet ==
    \A agent \in SelectsModel :
        (StepWithBackend(agent) /\ plan[stepIdx].model # NoModel) =>
            model[agent] = plan[stepIdx].model

\* C38: the model a backend uses for a step is determined by that step
\* alone: a Claude step without a model field runs with the configured
\* default model, not with one an earlier step or run selected.
C38_DefaultModelWithoutField ==
    (StepWithBackend("claude") /\ plan[stepIdx].model = NoModel) =>
        model.claude = ConfiguredModels.claude

(***************************************************************************)
(* The query a step's record shows                                         *)
(***************************************************************************)
\* A step of /api/execute whose instruction is with the resolution loop.
StepSending ==
    /\ pc = "in_step" /\ stack = <<>>
    /\ lpPc \notin {"idle", "done"}
    /\ Len(session.stepExecutions) = stepIdx

\* C32: the query recorded in a StepExecution equals what is sent to the
\* backend for that step: it names a file only if that file is attached to
\* the request, and it includes the previous-steps context block whenever
\* one is sent.
C32_QueryIsWhatIsSent ==
    StepSending =>
        /\ session.stepExecutions[stepIdx].query.description = task.description
        /\ session.stepExecutions[stepIdx].query.blocks = task.blocks
        /\ session.stepExecutions[stepIdx].query.files =
              stepFiles(plan[stepIdx], TaskFiles)

(***************************************************************************)
(* Saves of one session                                                    *)
(***************************************************************************)
\* The run awaits a saveExecution of its session.
RunSaving ==
    pc \in {"save_completed", "save_failed", "save_aborted", "save_final", "save_outer"}

\* C33: writes of the same session id never overlap: no saveExecution for a
\* session starts while another save of that session is still in flight,
\* the abort handler's save during a run included.
C33_SavesDoNotOverlap ==
    ~(RunSaving /\ abortPc = "saving")

(***************************************************************************)
(* An abort request outside a run                                          *)
(***************************************************************************)
\* POST /api/execute/abort arrives.
AbortArrives == aborts' = aborts + 1

\* C40: an abort request received when no run is in progress changes no
\* session: the transcript of an already finished run is left as it is and
\* no write of its persisted document is started.
C40_AbortOutsideRunChangesNothing ==
    [][(pc \in {"idle", "done"} /\ AbortArrives) =>
          (session' = session /\ abortPc' = abortPc)]_vars

(***************************************************************************)
(* Steps for an agent the switch does not know                             *)
(***************************************************************************)
\* The cases of switch (step.agent).
SwitchCases == {"claude", "gemini", "ollama", "manager"}

\* C37: a StepExecution reaches 'completed' only if the backend assigned to
\* the step was invoked and returned a final answer: a step whose agent tag
\* matches no known backend (such as 'mlx') is not recorded as completed.
C37_CompletedMeansBackendAnswered ==
    \A k \in 1..Len(session.stepExecutions) :
        session.stepExecutions[k].status = "completed" =>
            session.stepExecutions[k].agent \in SwitchCases

(***************************************************************************)
(* The last backoff sleep                                                  *)
(***************************************************************************)
\* The controller call has ended with the abort error of its sleep.
EndedByAbort ==
    rcPc = "done" /\ resp.st = "err" /\ IsAbortMessage(resp.error.message)

\* C35: every backoff sleep of the retry controller that ends without an
\* abort is followed by another backend invocation: after its final (m-th)
\* attempt is rate-limited the controller surfaces that error without
\* notifying the observer or sleeping again.
C35_SleepThenInvoke ==
    (rcPc = "done" /\ ~EndedByAbort /\ rcLog # <<>>) =>
        rcLog[Len(rcLog)].ev = "invoke"

(***************************************************************************)
(* Backend invocations under the abort flag                                *)
(***************************************************************************)
\* The backends a resolution loop invokes.
LoopBackends == {"claude", "ollama", "gemini"}

\* A backend invocation of a resolution loop starts.
InvocationStarts == net = "none" /\ net' \in LoopBackends

\* C36: while the abort flag is set, a running step starts no new backend
\* invocation: every backend call of a resolution loop (Claude, Ollama,
\* Gemini), each retry attempt after a backoff sleep included, comes after
\* an abort check with no suspension between the check and the call.
C36_NoInvocationWhileAborted ==
    [][InvocationStarts => ~aborted]_vars

(***************************************************************************)
(* Cross-backend recursion: a backend that answers every instruction with  *)
(* invoke_claude                                                           *)
(***************************************************************************)
RecursiveEnv ==
    [lists |-> {<<InvokeClaude>>},
     roundCap |-> MAX_TOOL_ITERATIONS,
     faults |-> {},
     directFaults |-> {},
     mcp |-> {},
     mcpFails |-> FALSE,
     servers |-> {},
     ollama |-> TRUE,
     agents |-> {},
     texts |-> {}, nesting |-> MaxDepth]

InitRecursion ==
    /\ env = RecursiveEnv
    /\ aborted = FALSE /\ aborts = 0 /\ abortAt = NoAbort
    /\ model = ConfiguredModels
    /\ RcIdle
    /\ net = "none" /\ resp = NoResp
    /\ LpIdle
    /\ RunIdle

NextRecursion ==
    \/ Chat
    \/ ExecuteWithEnter
    \/ LoopHead
    \/ RetryAttempt
    \/ ClaudeReturns
    \/ DirectReturns
    \/ LoopOnResult
    \/ CrossAgentCall

SpecRecursion == InitRecursion /\ [][NextRecursion]_vars

\* C34: cross-backend recursion depth is not bounded: each nested
\* resolution started by invoke_claude gets a fresh iteration budget of 20
\* and shares no counter with its parent, so for a backend that answers
\* every instruction with invoke_claude every call on the stack is in its
\* first tool round however deep the nesting, and the maximum-iterations
\* error is never raised.
C34_RecursionUnbounded ==
    /\ \A i \in 1..Len(stack) : stack[i].toolCallIterations = 1
    /\ toolCallIterations <= 1
    /\ ret.st # "err"
    /\ resp.st # "err"

\* The nesting is deeper than the iteration budget of one call, and the
\* innermost call is invoking the backend.
C34_Witness ==
    /\ Len(stack) = MaxDepth /\ MaxDepth > MAX_TOOL_ITERATIONS
    /\ lpAgent = "claude" /\ net = "claude"
    /\ toolCallIterations = 0

(***************************************************************************)
(* The tool calls a step's record shows                                    *)
(***************************************************************************)
\* The ids of the tool calls of the rounds that are through.
ReturnedIds ==
    UNION {{messages[k].results[i].id : i \in 1..Len(messages[k].results)} :
              k \in {j \in 1..Len(messages) : "results" \in DOMAIN messages[j]}}

\* The ids of the tool calls the step's call of the loop has dispatched:
\* those of the rounds that are through, those of the round in progress
\* that have returned, and the one whose dispatch threw.
DispatchedIds ==
    ReturnedIds
    \cup {toolResults[i].toolCallId : i \in 1..Len(toolResults)}
    \cup (IF ret.st = "err" /\ pending # <<>> THEN {Head(pending).id} ELSE {})

\* The step's record gets its trace: on success or in the catch block.
StepRecorded == pc = "in_step" /\ pc' \in {"save_completed", "save_failed"}

\* C39: the toolCalls recorded in a StepExecution, on success and on
\* failure alike, are exactly the tool calls dispatched while that step was
\* executing: none is missing, and none comes from an earlier step, from a
\* previous run or from a direct chat request.
C39_TraceIsWhatWasDispatched ==
    [][StepRecorded =>
          {session'.stepExecutions[stepIdx].toolCalls[i].id :
              i \in 1..Len(session'.stepExecutions[stepIdx].toolCalls)}
          = DispatchedIds]_vars

=============================================================================
